---- MODULE Spec2Model ----
(***************************************************************************)
(* jobd: a job-scheduling daemon driven through a synthetic file tree.     *)
(*                                                                         *)
(*   /clone              clonefile.Write   (clone.go)                      *)
(*   /jobs/<name>/ctl    jobfile.Write -> ctl writer (job.go, mkJob)       *)
(*   /jobs/<name>/{schedule,cmd,log}   read-only files (job.go, mkJob)     *)
(*   job.run             one goroutine per effective "start" (job.go)      *)
(*                                                                         *)
(* Byte strings are sequences of one-character strings, so that            *)
(* strings.Split, strings.ToLower and the name regexp are computed.        *)
(* time.Now() is a logical clock that ticks at every call, so every        *)
(* history entry carries a distinct, increasing timestamp.                 *)
(***************************************************************************)
EXTENDS Integers, Sequences, FiniteSets, TLC

\* ------------------------------------------------------------ bounds
MaxClock == 3
MaxTasks == 2
MaxOffset == 8
MaxBuf == 8

\* ------------------------------------------------- program constants
RingCap == 32

STOPPED == "stopped"
STOP    == "stop"
STARTED == "started"
START   == "start"

\* ------------------------------------------------------------ bytes
None == "none"
Nil  == [t |-> -1, kind |-> "nil"]

Colon == <<":">>
Cron5 == <<"*", " ", "*", " ", "*", " ", "*", " ", "*">>

WordChars == {"a", "b", "c", "x", "y", "_", "7", "A"}

Def(name, sched, cmd) == name \o Colon \o sched \o Colon \o cmd

\* strings.Split(s, sep) for a one-byte separator.
RECURSIVE SplitFrom(_, _, _, _)
SplitFrom(s, sep, i, cur) ==
    IF i > Len(s) THEN <<cur>>
    ELSE IF s[i] = sep THEN <<cur>> \o SplitFrom(s, sep, i + 1, <<>>)
    ELSE SplitFrom(s, sep, i + 1, Append(cur, s[i]))

Split(s, sep) == SplitFrom(s, sep, 1, <<>>)

\* strings.ToLower on the letters the payloads use.
LowerByte(ch) ==
    CASE ch = "S" -> "s" [] ch = "T" -> "t" [] ch = "A" -> "a"
      [] ch = "R" -> "r" [] ch = "O" -> "o" [] ch = "P" -> "p"
      [] OTHER -> ch

ToLower(s) == [i \in 1..Len(s) |-> LowerByte(s[i])]

Bytes(word) ==
    CASE word = STOP  -> <<"s", "t", "o", "p">>
      [] word = START -> <<"s", "t", "a", "r", "t">>

\* cronexpr.Parse(schedule) succeeds: 5 to 7 blank-separated "*" fields.
ParseOk(sched) ==
    LET f == Split(sched, " ")
    IN  /\ Len(f) \in 5..7
        /\ \A i \in 1..Len(f) : f[i] = <<"*">>

\* regexp.MatchString("[^[:word:]]", name): some byte is not a word byte.
MatchesNonWord(name) == \E i \in 1..Len(name) : name[i] \notin WordChars

\* mkJobDefinition(name, schedule, cmd)
mkJobDefinition(name, sched, cmd) ==
    IF MatchesNonWord(name)
    THEN [ok |-> FALSE, err |-> "invalid job name"]
    ELSE IF ~ParseOk(sched)
    THEN [ok |-> FALSE, err |-> "cron parse error"]
    ELSE [ok |-> TRUE, err |-> None,
          def |-> [name |-> name, schedule |-> sched, cmd |-> cmd]]

\* mkJob: the job object, STOPPED, with an empty ring of RingCap slots.
\* pushed counts the pushes its tasks have finished; no code reads it.
NewJob(def) ==
    [defn |-> def, state |-> STOPPED,
     ring |-> [i \in 0..(RingCap - 1) |-> Nil], cur |-> 0, pushed |-> 0]

NameExists(js, name) == \E i \in 1..Len(js) : js[i].defn.name = name

\* addJob without the test for a child of that name.
addJob_NoNameCheck(js, def) ==
    [ok |-> TRUE, err |-> None, jobs |-> Append(js, NewJob(def))]

\* jobsdir.addJob(def): mkJob, then job.Add puts the job under /jobs unless a
\* child has that name.
addJob(js, def) ==
    IF NameExists(js, def.name)
    THEN [ok |-> FALSE, err |-> "file already exists", jobs |-> js]
    ELSE [ok |-> TRUE, err |-> None, jobs |-> Append(js, NewJob(def))]

\* ------------------------------------------------------------ inputs
Clients == {"c1", "c2"}

ValidA == Def(<<"a">>, Cron5, <<"x">>)
SameNameA == Def(<<"a">>, Cron5, <<"y">>)

\* Payloads written to /clone: a valid definition, the same name again, and
\* a payload of two fields.
ClonePayloads == { ValidA, SameNameA, <<"a">> \o Colon \o Cron5 }

\* The wider set the clone-only specification draws from: also an empty
\* name, a name with a blank, a second valid name, a schedule that does not
\* parse, and four fields.
ClonePayloadsWide ==
    ClonePayloads \cup
    { Def(<<>>, Cron5, <<"x">>),
      Def(<<"a", " ">>, Cron5, <<"x">>),
      Def(<<"b">>, Cron5, <<"x">>),
      Def(<<"c">>, <<"*">>, <<"x">>),
      Def(<<"c">>, Cron5, <<"x", ":", "y">>) }

StartLower == <<"s", "t", "a", "r", "t">>
StopUpper  == <<"S", "T", "O", "P">>
Starts     == <<"s", "t", "a", "r", "t", "s">>

CtlPayloads == { StartLower, StopUpper, Starts }

RoFiles == {"schedule", "cmd", "log"}

\* ------------------------------------------------------------- state
VARIABLES
    jobs,       \* children of /jobs, in insertion order
    locks,      \* locks[i]: holder of the mutex of job directory i
    clonelock,  \* holder of the mutex of /clone
    tasks,      \* the goroutines job.run spawned, in spawn order
    db,         \* bytes of the definitions file (jobsdb)
    clients,    \* per client: the request it has in progress
    now,        \* logical clock read by time.Now()
    reply       \* the response the last step sent, if it sent one

vars == <<jobs, locks, clonelock, tasks, db, clients, now, reply>>

Idle == [pc |-> "idle", op |-> None, job |-> 0, file |-> None,
         data |-> <<>>, r |-> 0]

NoReply == [c |-> None]

Reply(c, op, n, err, content) ==
    [c |-> c, op |-> op, n |-> n, err |-> err, content |-> content]

InitWith(cs) ==
    /\ jobs = <<>>
    /\ locks = <<>>
    /\ clonelock = None
    /\ tasks = <<>>
    /\ db = <<>>
    /\ clients = [c \in cs |-> Idle]
    /\ now = 0
    /\ reply = NoReply

\* One client, whose requests follow one another, beside the goroutines.
Init == InitWith({"c1"})

\* Two clients, whose requests overlap.
InitConc == InitWith(Clients)

\* ------------------------------------------------------------ /clone
\* A client sends a write of data to /clone.
CloneBegin(c, data) ==
    /\ clients[c].pc = "idle"
    /\ clients' = [clients EXCEPT ![c] =
                     [Idle EXCEPT !.pc = "lock", !.op = "clone", !.data = data]]
    /\ reply' = NoReply
    /\ UNCHANGED <<jobs, locks, clonelock, tasks, db, now>>

\* clonefile.Write: k.Lock()
CloneLock(c) ==
    /\ clients[c].pc = "lock" /\ clients[c].op = "clone"
    /\ clonelock = None
    /\ clonelock' = c
    /\ clients' = [clients EXCEPT ![c].pc = "add"]
    /\ reply' = NoReply
    /\ UNCHANGED <<jobs, locks, tasks, db, now>>

\* clonefile.Write: split, mkJobDefinition, jobsroot.addJob; every failure
\* returns through the deferred k.Unlock().
CloneAdd(c) ==
    /\ clients[c].pc = "add" /\ clients[c].op = "clone"
    /\ LET data  == clients[c].data
           parts == Split(data, ":")
       IN  IF Len(parts) # 3
           THEN /\ reply' = Reply(c, "clone", 0, "invalid job definition", <<>>)
                /\ clients' = [clients EXCEPT ![c] = Idle]
                /\ clonelock' = None
                /\ UNCHANGED <<jobs, locks>>
           ELSE LET jd == mkJobDefinition(parts[1], parts[2], parts[3])
                IN  IF ~jd.ok
                    THEN /\ reply' = Reply(c, "clone", 0, jd.err, <<>>)
                         /\ clients' = [clients EXCEPT ![c] = Idle]
                         /\ clonelock' = None
                         /\ UNCHANGED <<jobs, locks>>
                    ELSE LET a == addJob(jobs, jd.def)
                         IN  IF ~a.ok
                             THEN /\ reply' = Reply(c, "clone", Len(data), a.err, <<>>)
                                  /\ clients' = [clients EXCEPT ![c] = Idle]
                                  /\ clonelock' = None
                                  /\ UNCHANGED <<jobs, locks>>
                             ELSE /\ jobs' = a.jobs
                                  /\ locks' = Append(locks, None)
                                  /\ clients' = [clients EXCEPT ![c].pc = "append"]
                                  /\ reply' = NoReply
                                  /\ UNCHANGED clonelock
    /\ UNCHANGED <<tasks, db, now>>

\* clonefile.Write: os.OpenFile(jobsdb, O_WRONLY|O_APPEND) fails.
CloneOpenFails(c) ==
    /\ clients[c].pc = "append" /\ clients[c].op = "clone"
    /\ reply' = Reply(c, "clone", Len(clients[c].data), "open failed", <<>>)
    /\ clients' = [clients EXCEPT ![c] = Idle]
    /\ clonelock' = None
    /\ UNCHANGED <<jobs, locks, tasks, db, now>>

\* clonefile.Write: fmt.Fprintf(db, "%s\n", data); db.Close(); return len(data), nil
CloneAppend(c) ==
    /\ clients[c].pc = "append" /\ clients[c].op = "clone"
    /\ db' = db \o clients[c].data \o <<"\n">>
    /\ reply' = Reply(c, "clone", Len(clients[c].data), None, <<>>)
    /\ clients' = [clients EXCEPT ![c] = Idle]
    /\ clonelock' = None
    /\ UNCHANGED <<jobs, locks, tasks, now>>

\* clonefile.Write: the result of fmt.Fprintf is discarded, so a failed write
\* of the line still returns len(data), nil.
CloneWriteFails(c) ==
    /\ clients[c].pc = "append" /\ clients[c].op = "clone"
    /\ reply' = Reply(c, "clone", Len(clients[c].data), None, <<>>)
    /\ clients' = [clients EXCEPT ![c] = Idle]
    /\ clonelock' = None
    /\ UNCHANGED <<jobs, locks, tasks, db, now>>

\* ------------------------------------------------ /jobs/<name>/<file>
\* The switch matching on a prefix of the payload instead of the payload.
CtlCommand_Prefix(data) ==
    LET cmd == ToLower(data)
        HasPrefix(w) == Len(cmd) >= Len(w) /\ SubSeq(cmd, 1, Len(w)) = w
    IN  IF HasPrefix(Bytes(STOP)) THEN STOP
        ELSE IF HasPrefix(Bytes(START)) THEN START
        ELSE "unknown"

\* The ctl writer's switch on strings.ToLower(string(data)).
CtlCommand(data) ==
    LET cmd == ToLower(data)
    IN  IF cmd = Bytes(STOP) THEN STOP
        ELSE IF cmd = Bytes(START) THEN START
        ELSE "unknown"

\* Cases that act whatever the state is.
Needed_Always(cmd, state) == TRUE

\* The guards of the STOP and START cases, and the state each case stores.
Needed(cmd, state) ==
    IF cmd = STOP THEN state # STOPPED ELSE state # STARTED

Target(cmd) == IF cmd = STOP THEN STOPPED ELSE STARTED

\* A writer that takes the bytes: the log writer empties the history.
RoWriter_Accepts(job, file, data) ==
    [n |-> Len(data), err |-> None,
     job |-> IF file = "log"
             THEN [job EXCEPT !.ring = [i \in 0..(RingCap - 1) |-> Nil]]
             ELSE job]

\* The writers of schedule, cmd and log: return 0, srv.Eperm.
RoWriter(job, file, data) ==
    [n |-> 0, err |-> "permission denied", job |-> job]

\* A Lock() that never waits.
CanLock_NoMutex(holder) == TRUE

\* One mutex for the whole tree: Lock() waits while any job directory is
\* locked.
CanLock_Global(holder) ==
    holder = None /\ \A j \in 1..Len(locks) : locks[j] = None

\* sync.Mutex.Lock() proceeds only when nobody holds the mutex.
CanLock(holder) == holder = None

\* ring.Do from r: r, r.Next(), ... once around; the log reader keeps the
\* values that are not nil.
RingNext(p) == (p + 1) % RingCap

Do(ring, r) ==
    LET around == [k \in 1..RingCap |-> ring[(r + k - 1) % RingCap]]
    IN  SelectSeq(around, LAMBDA v : v # Nil)

\* A client sends a write of data to a file of job directory j.
FileBegin(c, j, file, data) ==
    /\ clients[c].pc = "idle"
    /\ j \in 1..Len(jobs)
    /\ clients' = [clients EXCEPT ![c] =
                     [Idle EXCEPT !.pc = "lock", !.op = "write", !.job = j,
                                  !.file = file, !.data = data]]
    /\ reply' = NoReply
    /\ UNCHANGED <<jobs, locks, clonelock, tasks, db, now>>

\* jobfile.Write on schedule, cmd or log: Parent.Lock(), the writer,
\* Parent.Unlock().
RoWrite(c) ==
    /\ clients[c].pc = "lock" /\ clients[c].op = "write"
    /\ clients[c].file \in RoFiles
    /\ LET j == clients[c].job
           w == RoWriter(jobs[j], clients[c].file, clients[c].data)
       IN  /\ CanLock(locks[j])
           /\ jobs' = [jobs EXCEPT ![j] = w.job]
           /\ reply' = Reply(c, clients[c].file, w.n, w.err, <<>>)
    /\ clients' = [clients EXCEPT ![c] = Idle]
    /\ UNCHANGED <<locks, clonelock, tasks, db, now>>

\* jobfile.Write on ctl: Parent.Lock(), then the writer's switch and the
\* test of job.defn.state. A case that has nothing to do returns at once
\* (the deferred Parent.Unlock() runs).
CtlEnter(c) ==
    /\ clients[c].pc = "lock" /\ clients[c].op = "write"
    /\ clients[c].file = "ctl"
    /\ LET j    == clients[c].job
           data == clients[c].data
           cmd  == CtlCommand(data)
       IN  /\ CanLock(locks[j])
           /\ IF cmd = "unknown"
              THEN /\ reply' = Reply(c, "ctl", 0, "unknown command", <<>>)
                   /\ clients' = [clients EXCEPT ![c] = Idle]
                   /\ UNCHANGED locks
              ELSE IF ~Needed(cmd, jobs[j].state)
              THEN /\ reply' = Reply(c, "ctl", Len(data), None, <<>>)
                   /\ clients' = [clients EXCEPT ![c] = Idle]
                   /\ UNCHANGED locks
              ELSE /\ locks' = [locks EXCEPT ![j] = c]
                   /\ clients' = [clients EXCEPT ![c].pc = "set"]
                   /\ reply' = NoReply
    /\ UNCHANGED <<jobs, clonelock, tasks, db, now>>

\* ctl writer: job.defn.state = STOPPED, or job.defn.state = STARTED.
CtlSet(c) ==
    /\ clients[c].pc = "set"
    /\ LET j == clients[c].job
       IN  jobs' = [jobs EXCEPT ![j].state = Target(CtlCommand(clients[c].data))]
    /\ clients' = [clients EXCEPT ![c].pc = "act"]
    /\ reply' = NoReply
    /\ UNCHANGED <<locks, clonelock, tasks, db, now>>

\* ctl writer, START: go job.run(); return len(data), nil.
CtlSpawn(c) ==
    /\ clients[c].pc = "act"
    /\ CtlCommand(clients[c].data) = START
    /\ Len(tasks) < MaxTasks
    /\ LET j == clients[c].job
       IN  /\ tasks' = Append(tasks, [job |-> j, pc |-> "push", kind |-> STARTED,
                                      v |-> Nil, p |-> 0])
           /\ locks' = [locks EXCEPT ![j] = None]
    /\ reply' = Reply(c, "ctl", Len(clients[c].data), None, <<>>)
    /\ clients' = [clients EXCEPT ![c] = Idle]
    /\ UNCHANGED <<jobs, clonelock, db, now>>

\* A send on a buffered job.done: the writer returns without a task having
\* received.
CtlSend_Buffered(c, t) ==
    /\ clients[c].pc = "act"
    /\ CtlCommand(clients[c].data) = STOP
    /\ t \in 1..Len(tasks)
    /\ tasks[t].job = clients[c].job
    /\ locks' = [locks EXCEPT ![clients[c].job] = None]
    /\ reply' = Reply(c, "ctl", Len(clients[c].data), None, <<>>)
    /\ clients' = [clients EXCEPT ![c] = Idle]
    /\ UNCHANGED <<jobs, clonelock, tasks, db, now>>

\* ctl writer, STOP: job.done <- true meets case <-j.done of a task of this
\* job that waits in its select; the writer then returns len(data), nil.
CtlSend(c, t) ==
    /\ clients[c].pc = "act"
    /\ CtlCommand(clients[c].data) = STOP
    /\ t \in 1..Len(tasks)
    /\ tasks[t].job = clients[c].job
    /\ tasks[t].pc = "select"
    /\ tasks' = [tasks EXCEPT ![t].pc = "push", ![t].kind = "completed"]
    /\ locks' = [locks EXCEPT ![clients[c].job] = None]
    /\ reply' = Reply(c, "ctl", Len(clients[c].data), None, <<>>)
    /\ clients' = [clients EXCEPT ![c] = Idle]
    /\ UNCHANGED <<jobs, clonelock, db, now>>

\* jobfile.Read on ctl: the reader returns job.defn.state.
ReadCtl(c, j) ==
    /\ clients[c].pc = "idle"
    /\ j \in 1..Len(jobs)
    /\ reply' = Reply(c, "readctl", 0, None, <<jobs[j].state>>)
    /\ UNCHANGED <<jobs, locks, clonelock, tasks, db, clients, now>>

\* jobfile.Read on log: the reader loads job.history ...
ReadLogBegin(c, j) ==
    /\ clients[c].pc = "idle"
    /\ j \in 1..Len(jobs)
    /\ clients' = [clients EXCEPT ![c] =
                     [Idle EXCEPT !.pc = "scan", !.op = "readlog", !.job = j,
                                  !.r = jobs[j].cur]]
    /\ reply' = NoReply
    /\ UNCHANGED <<jobs, locks, clonelock, tasks, db, now>>

\* ... and walks the ring once around from there.
ReadLogScan(c) ==
    /\ clients[c].pc = "scan"
    /\ reply' = Reply(c, "readlog", 0, None,
                      Do(jobs[clients[c].job].ring, clients[c].r))
    /\ clients' = [clients EXCEPT ![c] = Idle]
    /\ UNCHANGED <<jobs, locks, clonelock, tasks, db, now>>

\* ------------------------------------------------------------ job.run
\* The head of the for loop: cronexpr.Parse, and return when it fails.
LoopHead(j) == IF ParseOk(jobs[j].defn.schedule) THEN "select" ELSE "exited"

\* What follows a push: the loop, or the return after "completed".
AfterPush(task) ==
    IF task.kind = "completed" THEN "exited" ELSE LoopHead(task.job)

\* A push that takes the mutex of the job directory for its first step.
TaskPush_Locked(t) ==
    /\ t \in 1..Len(tasks)
    /\ tasks[t].pc = "push"
    /\ now < MaxClock
    /\ locks[tasks[t].job] = None
    /\ tasks' = [tasks EXCEPT ![t].pc = "store",
                              ![t].v = [t |-> now, kind |-> tasks[t].kind],
                              ![t].p = jobs[tasks[t].job].cur]
    /\ now' = now + 1
    /\ reply' = NoReply
    /\ UNCHANGED <<jobs, locks, clonelock, db, clients>>

\* j.history.Value = fmt.Sprintf("%s:...", time.Now()): the entry is built
\* and j.history is loaded ...
TaskPush(t) ==
    /\ t \in 1..Len(tasks)
    /\ tasks[t].pc = "push"
    /\ now < MaxClock
    /\ tasks' = [tasks EXCEPT ![t].pc = "store",
                              ![t].v = [t |-> now, kind |-> tasks[t].kind],
                              ![t].p = jobs[tasks[t].job].cur]
    /\ now' = now + 1
    /\ reply' = NoReply
    /\ UNCHANGED <<jobs, locks, clonelock, db, clients>>

\* ... and the entry is stored in the slot loaded.
TaskStore(t) ==
    /\ t \in 1..Len(tasks)
    /\ tasks[t].pc = "store"
    /\ jobs' = [jobs EXCEPT ![tasks[t].job].ring[tasks[t].p] = tasks[t].v]
    /\ tasks' = [tasks EXCEPT ![t].pc = "load", ![t].v = Nil]
    /\ reply' = NoReply
    /\ UNCHANGED <<locks, clonelock, db, clients, now>>

\* j.history = j.history.Next(): j.history is loaded ...
TaskLoad(t) ==
    /\ t \in 1..Len(tasks)
    /\ tasks[t].pc = "load"
    /\ tasks' = [tasks EXCEPT ![t].pc = "adv", ![t].p = jobs[tasks[t].job].cur]
    /\ reply' = NoReply
    /\ UNCHANGED <<jobs, locks, clonelock, db, clients, now>>

\* ... and its successor is stored in j.history. The locals of the push are
\* dead from here on and are cleared.
TaskAdvance(t) ==
    /\ t \in 1..Len(tasks)
    /\ tasks[t].pc = "adv"
    /\ jobs' = [jobs EXCEPT ![tasks[t].job].cur = RingNext(tasks[t].p),
                             ![tasks[t].job].pushed = @ + 1]
    /\ tasks' = [tasks EXCEPT ![t].pc = AfterPush(tasks[t]), ![t].p = 0,
                              ![t].kind = IF @ = "completed" THEN @ ELSE None]
    /\ reply' = NoReply
    /\ UNCHANGED <<locks, clonelock, db, clients, now>>

\* select: case <-time.After(...): the command starts.
TaskFire(t) ==
    /\ t \in 1..Len(tasks)
    /\ tasks[t].pc = "select"
    /\ tasks' = [tasks EXCEPT ![t].pc = "run", ![t].kind = None]
    /\ reply' = NoReply
    /\ UNCHANGED <<jobs, locks, clonelock, db, clients, now>>

\* k.Run() returns nil: the output is pushed.
TaskRunOk(t) ==
    /\ t \in 1..Len(tasks)
    /\ tasks[t].pc = "run"
    /\ tasks' = [tasks EXCEPT ![t].pc = "push", ![t].kind = "output"]
    /\ reply' = NoReply
    /\ UNCHANGED <<jobs, locks, clonelock, db, clients, now>>

\* A failed command that ends the task.
TaskRunFails_Exits(t) ==
    /\ t \in 1..Len(tasks)
    /\ tasks[t].pc = "run"
    /\ tasks' = [tasks EXCEPT ![t].pc = "exited", ![t].kind = "failed"]
    /\ reply' = NoReply
    /\ UNCHANGED <<jobs, locks, clonelock, db, clients, now>>

\* k.Run() returns an error: continue. kind keeps, until the next fire or
\* the stop, that the last command failed; no code reads it.
TaskRunFails(t) ==
    /\ t \in 1..Len(tasks)
    /\ tasks[t].pc = "run"
    /\ tasks' = [tasks EXCEPT ![t].pc = LoopHead(tasks[t].job),
                              ![t].kind = "failed"]
    /\ reply' = NoReply
    /\ UNCHANGED <<jobs, locks, clonelock, db, clients, now>>

\* ---------------------------------------------------- specification
CloneSteps ==
    \/ \E c \in DOMAIN clients : CloneLock(c)
    \/ \E c \in DOMAIN clients : CloneAdd(c)
    \/ \E c \in DOMAIN clients : CloneOpenFails(c)
    \/ \E c \in DOMAIN clients : CloneAppend(c)
    \/ \E c \in DOMAIN clients : CloneWriteFails(c)

CtlSteps ==
    \/ \E c \in DOMAIN clients : CtlEnter(c)
    \/ \E c \in DOMAIN clients : CtlSet(c)
    \/ \E c \in DOMAIN clients : CtlSpawn(c)
    \/ \E c \in DOMAIN clients, t \in 1..Len(tasks) : CtlSend(c, t)

TaskSteps ==
    \/ \E t \in 1..Len(tasks) : TaskPush(t)
    \/ \E t \in 1..Len(tasks) : TaskStore(t)
    \/ \E t \in 1..Len(tasks) : TaskLoad(t)
    \/ \E t \in 1..Len(tasks) : TaskAdvance(t)
    \/ \E t \in 1..Len(tasks) : TaskFire(t)
    \/ \E t \in 1..Len(tasks) : TaskRunOk(t)
    \/ \E t \in 1..Len(tasks) : TaskRunFails(t)

\* Every operation, one client.
Next ==
    \/ \E c \in DOMAIN clients, data \in ClonePayloads : CloneBegin(c, data)
    \/ CloneSteps
    \/ \E c \in DOMAIN clients, j \in 1..Len(jobs), data \in CtlPayloads :
           FileBegin(c, j, "ctl", data)
    \/ \E c \in DOMAIN clients, j \in 1..Len(jobs), f \in RoFiles :
           FileBegin(c, j, f, <<"x">>)
    \/ \E c \in DOMAIN clients : RoWrite(c)
    \/ CtlSteps
    \/ \E c \in DOMAIN clients, j \in 1..Len(jobs) : ReadCtl(c, j)
    \/ \E c \in DOMAIN clients, j \in 1..Len(jobs) : ReadLogBegin(c, j)
    \/ \E c \in DOMAIN clients : ReadLogScan(c)
    \/ TaskSteps

Spec == Init /\ [][Next]_vars

\* The steps of task t that need nothing but the processor: the pushes, and
\* the command, which terminates.
TaskRun(t) ==
    \/ TaskPush(t) \/ TaskStore(t) \/ TaskLoad(t) \/ TaskAdvance(t)
    \/ TaskRunOk(t) \/ TaskRunFails(t)

\* Goroutines that can run do run: the handler of a ctl write and the tasks.
\* The timer of a select is never due when the select is entered (the delay
\* to e.Next(now) is positive), so a task that keeps coming back to its select
\* while a stop waits in job.done <- true receives it: the handoff is strongly
\* fair. Clients are not obliged to send anything.
Fairness ==
    /\ \A c \in {"c1"} : WF_vars(CtlEnter(c)) /\ WF_vars(CtlSet(c))
    /\ \A t \in 1..MaxTasks : WF_vars(TaskRun(t))
    /\ \A c \in {"c1"}, t \in 1..MaxTasks : SF_vars(CtlSend(c, t))

SpecLive == Init /\ [][Next]_vars /\ Fairness

\* Overlapping writes of two clients to /clone and to ctl, and the tasks.
NextConc ==
    \/ \E c \in DOMAIN clients, data \in {ValidA, SameNameA} : CloneBegin(c, data)
    \/ CloneSteps
    \/ \E c \in DOMAIN clients, j \in 1..Len(jobs), data \in {StartLower, StopUpper} :
           FileBegin(c, j, "ctl", data)
    \/ CtlSteps
    \/ TaskSteps

SpecConc == InitConc /\ [][NextConc]_vars

\* Two jobs, a and b, registered by two clone writes that have returned, and
\* overlapping writes of two clients to their ctl files, with the tasks of
\* both.
ValidB == Def(<<"b">>, Cron5, <<"x">>)

InitTwo ==
    /\ jobs = addJob(addJob(<<>>, mkJobDefinition(<<"a">>, Cron5, <<"x">>).def).jobs,
                     mkJobDefinition(<<"b">>, Cron5, <<"x">>).def).jobs
    /\ locks = <<None, None>>
    /\ clonelock = None
    /\ tasks = <<>>
    /\ db = ValidA \o <<"\n">> \o ValidB \o <<"\n">>
    /\ clients = [c \in Clients |-> Idle]
    /\ now = 0
    /\ reply = NoReply

NextTwo ==
    \/ \E c \in DOMAIN clients, j \in 1..Len(jobs), data \in {StartLower, StopUpper} :
           FileBegin(c, j, "ctl", data)
    \/ CtlSteps
    \/ TaskSteps

SpecTwo == InitTwo /\ [][NextTwo]_vars

\* Overlapping writes of two clients to /clone alone, over the wider payloads.
NextClone ==
    \/ \E c \in DOMAIN clients, data \in ClonePayloadsWide : CloneBegin(c, data)
    \/ CloneSteps

SpecClone == InitConc /\ [][NextClone]_vars

\* ------------------------------------------------------------ replay
\* Payloads of the persistence round trip: the valid definitions, and commands
\* that end in a newline (what echo sends) or hold one.
ClonePayloadsReplay ==
    { ValidA, SameNameA,
      Def(<<"b">>, Cron5, <<"x">>),
      Def(<<"c">>, Cron5, <<"x", "\n">>),
      Def(<<"d">>, Cron5, <<"x", "\n", "y">>) }

\* Startup, one line of the definitions file: an empty line is passed over;
\* any other goes through parse, validate, register, and is skipped when one
\* of them fails. Nothing is appended to the file.
ReplayLine(js, line) ==
    LET parts == Split(line, ":")
    IN  IF line = <<>> \/ Len(parts) # 3 THEN js
        ELSE LET jd == mkJobDefinition(parts[1], parts[2], parts[3])
             IN  IF ~jd.ok THEN js ELSE addJob(js, jd.def).jobs

RECURSIVE ReplayFrom(_, _, _)
ReplayFrom(lines, i, js) ==
    IF i > Len(lines) THEN js
    ELSE ReplayFrom(lines, i + 1, ReplayLine(js, lines[i]))

\* Startup: the registry a fresh daemon builds from the definitions file.
Replay(bytes) == ReplayFrom(Split(bytes, "\n"), 1, <<>>)

\* Writes of one client to /clone, one after the other, with a definitions
\* file that can be opened and written.
NextReplay ==
    \/ \E c \in DOMAIN clients, data \in ClonePayloadsReplay : CloneBegin(c, data)
    \/ \E c \in DOMAIN clients : CloneLock(c)
    \/ \E c \in DOMAIN clients : CloneAdd(c)
    \/ \E c \in DOMAIN clients : CloneAppend(c)

SpecReplay == Init /\ [][NextReplay]_vars

\* -------------------------------------------------------------- read
\* []byte(job.defn.state)
StateBytes(state) ==
    CASE state = STOPPED -> <<"s", "t", "o", "p", "p", "e", "d">>
      [] state = STARTED -> <<"s", "t", "a", "r", "t", "e", "d">>

\* The readers of ctl, schedule and cmd. The time e.Next(time.Now()) that
\* schedule shows for a started job is rendered as the one byte "n".
Content(j, file) ==
    CASE file = "ctl" -> StateBytes(jobs[j].state)
      [] file = "schedule" ->
            IF jobs[j].state = STARTED
            THEN jobs[j].defn.schedule \o Colon \o <<"n">>
            ELSE jobs[j].defn.schedule
      [] file = "cmd" -> jobs[j].defn.cmd

\* jobfile.Read(fid, buf, offset) with len(buf) = max: nothing when offset is
\* beyond the content; else copy(buf, cont[offset:]) and len(cont[offset:]).
Read(cont, max, offset) ==
    IF offset > Len(cont)
    THEN [n |-> 0, buf |-> <<>>]
    ELSE LET contout == SubSeq(cont, offset + 1, Len(cont))
         IN  [n |-> Len(contout),
              buf |-> SubSeq(contout, 1, IF max < Len(contout)
                                         THEN max ELSE Len(contout))]

\* A client reads file of job j at offset into a buffer of max bytes; the
\* reply carries the count returned and the bytes copied into the buffer.
JobRead(c, j, file, offset, max) ==
    /\ clients[c].pc = "idle"
    /\ j \in 1..Len(jobs)
    /\ LET res == Read(Content(j, file), max, offset)
       IN  reply' = [c |-> c, op |-> "read", n |-> res.n, err |-> None,
                     content |-> res.buf, job |-> j, file |-> file,
                     offset |-> offset, max |-> max]
    /\ UNCHANGED <<jobs, locks, clonelock, tasks, db, clients, now>>

\* One job, stopped or started, and reads of its files at every offset and
\* buffer size.
NextRead ==
    \/ \E c \in DOMAIN clients : CloneBegin(c, ValidA)
    \/ \E c \in DOMAIN clients : CloneLock(c)
    \/ \E c \in DOMAIN clients : CloneAdd(c)
    \/ \E c \in DOMAIN clients : CloneAppend(c)
    \/ \E c \in DOMAIN clients, j \in 1..Len(jobs) :
           FileBegin(c, j, "ctl", StartLower)
    \/ \E c \in DOMAIN clients : CtlEnter(c)
    \/ \E c \in DOMAIN clients : CtlSet(c)
    \/ \E c \in DOMAIN clients : CtlSpawn(c)
    \/ \E c \in DOMAIN clients, j \in 1..Len(jobs),
          file \in {"ctl", "schedule", "cmd"},
          offset \in 0..MaxOffset, max \in 0..MaxBuf :
           JobRead(c, j, file, offset, max)

SpecRead == Init /\ [][NextRead]_vars

\* ------------------------------------------------------------ claims
TasksOf(j) == {t \in 1..Len(tasks) : tasks[t].job = j}

Alive(t) == tasks[t].pc # "exited"

\* No task of job j is between building an entry and advancing the cursor.
Quiet(j) == \A t \in TasksOf(j) : tasks[t].pc \in {"select", "run", "exited"}

\* What a read of log returns when no push overlaps it.
Log(j) == Do(jobs[j].ring, jobs[j].cur)

Min(a, b) == IF a < b THEN a ELSE b

UpperByte(ch) ==
    CASE ch = "s" -> "S" [] ch = "t" -> "T" [] ch = "a" -> "A"
      [] ch = "r" -> "R" [] ch = "o" -> "O" [] ch = "p" -> "P"

\* data equals word up to the case of its letters.
EqualFold(data, word) ==
    /\ Len(data) = Len(word)
    /\ \A i \in 1..Len(word) : data[i] \in {word[i], UpperByte(word[i])}

IsCtlWrite(c) ==
    /\ clients[c].op = "write"
    /\ clients[c].file = "ctl"
    /\ clients[c].pc # "idle"

\* The lines of the definitions file.
Lines(bytes) ==
    LET parts == Split(bytes, "\n")
    IN  {parts[i] : i \in 1..(Len(parts) - 1)}

DefLine(defn) == Def(defn.name, defn.schedule, defn.cmd)

\* C1: for every job in the registry, a scheduler task of the job is alive
\* if and only if the job's state is STARTED, in every reachable state.
C1_TaskAliveIffStarted ==
    \A j \in 1..Len(jobs) :
        (\E t \in TasksOf(j) : Alive(t)) <=> jobs[j].state = STARTED

\* C2: a write of "start" to ctl that returns, returns success with the whole
\* payload consumed, leaves the state STARTED and exactly one task of the job
\* that has not been told to stop; a write admitted when the job is already
\* STARTED spawns nothing. So two overlapping starts spawn one task.
C2_ConcurrentStartOneTask ==
    [][\A c \in DOMAIN clients :
          LET j == clients[c].job
          IN  ( /\ IsCtlWrite(c)
                /\ EqualFold(clients[c].data, Bytes(START))
                /\ clients'[c].pc = "idle" )
              => /\ reply' = Reply(c, "ctl", Len(clients[c].data), None, <<>>)
                 /\ jobs'[j].state = STARTED
                 /\ Cardinality({t \in 1..Len(tasks') :
                                   /\ tasks'[t].job = j
                                   /\ tasks'[t].pc # "exited"
                                   /\ tasks'[t].kind # "completed"}) = 1
                 /\ (clients[c].pc = "lock" => tasks' = tasks)]_vars

\* C2 witness: one client's start has just returned with the one task
\* spawned while the other client's start on the same job waits for the mutex.
C2_Witness ==
    \E c \in DOMAIN clients, d \in DOMAIN clients :
        /\ c # d
        /\ reply = Reply(c, "ctl", Len(StartLower), None, <<>>)
        /\ Len(tasks) = 1 /\ tasks[1].pc = "push" /\ tasks[1].kind = STARTED
        /\ IsCtlWrite(d) /\ clients[d].pc = "lock"
        /\ clients[d].data = StartLower
        /\ clients[d].job = tasks[1].job

UniqueNames ==
    \A i, k \in 1..Len(jobs) : jobs[i].defn.name = jobs[k].defn.name => i = k

\* C3: a write to /clone whose name is the name of a job in the registry
\* returns an error and changes neither the registry (names, states,
\* histories), nor the tasks, nor the definitions file; no two jobs of the
\* registry ever have the same name.
C3_DuplicateCloneRejected ==
    [][ /\ UniqueNames'
        /\ \A c \in DOMAIN clients :
              LET parts == Split(clients[c].data, ":")
              IN  ( /\ clients[c].op = "clone" /\ clients[c].pc = "add"
                    /\ clients'[c] # clients[c]
                    /\ Len(parts) = 3
                    /\ \E i \in 1..Len(jobs) : jobs[i].defn.name = parts[1] )
                  => /\ reply'.c = c /\ reply'.err # None
                     /\ UNCHANGED <<jobs, locks, tasks, db>> ]_vars

\* C3 witness: a clone write of the name of a started job, which has a live
\* task and an entry in its history, has just been rejected while the other
\* client's clone write waits for the mutex of /clone.
C3_Witness ==
    \E d \in DOMAIN clients :
        /\ reply.c # None /\ reply.c # d
        /\ reply.op = "clone" /\ reply.err = "file already exists"
        /\ Len(jobs) = 1 /\ jobs[1].state = STARTED /\ jobs[1].pushed >= 1
        /\ \E t \in TasksOf(1) : Alive(t)
        /\ clients[d].op = "clone" /\ clients[d].pc = "lock"

\* C4: when no clone write is in progress, the definitions file has a line
\* equal to the definition of every job of the registry.
C4_EveryJobLogged ==
    (\A c \in DOMAIN clients : clients[c].pc = "idle")
        => \A j \in 1..Len(jobs) : DefLine(jobs[j].defn) \in Lines(db)

\* C5: the history of a job reads in cycle order: "started", the outputs of
\* the cycle, "completed", then the next cycle; one "started" per task
\* spawned and one "completed" per task that returned, none lost (fewer than
\* RingCap pushes, so nothing wraps).
C5_CycleOrder ==
    \A j \in 1..Len(jobs) :
        Quiet(j) =>
            LET log == Log(j)
                Count(k) == Cardinality({i \in 1..Len(log) : log[i].kind = k})
            IN  /\ \A i \in 1..Len(log) :
                      IF log[i].kind = STARTED
                      THEN i = 1 \/ log[i - 1].kind = "completed"
                      ELSE i > 1 /\ log[i - 1].kind \in {STARTED, "output"}
                /\ Count(STARTED) = Cardinality(TasksOf(j))
                /\ Count("completed") =
                       Cardinality({t \in TasksOf(j) : ~Alive(t)})

\* C6: a write to ctl whose payload is neither "start" nor "stop" in any
\* case returns 0 bytes and the unknown-command error, and leaves the job's
\* state and history and the tasks as they were.
C6_UnknownCommandRejected ==
    [][\A c \in DOMAIN clients :
          ( /\ IsCtlWrite(c)
            /\ ~EqualFold(clients[c].data, Bytes(START))
            /\ ~EqualFold(clients[c].data, Bytes(STOP))
            /\ clients'[c] # clients[c] )
          => /\ reply' = Reply(c, "ctl", 0, "unknown command", <<>>)
             /\ clients'[c] = Idle
             /\ UNCHANGED <<jobs, tasks>>]_vars

\* C6 witness: the unknown-command error has just been returned for a
\* started job whose task is alive.
C6_Witness ==
    /\ reply.c # None /\ reply.op = "ctl" /\ reply.err = "unknown command"
    /\ \E j \in 1..Len(jobs) :
          jobs[j].state = STARTED /\ \E t \in TasksOf(j) : Alive(t)

\* C7: a write to schedule, cmd or log returns 0 bytes and permission-denied
\* and changes neither the job (state, definition, history), nor the tasks,
\* nor the registry, nor the definitions file.
C7_ReadOnlyFilesRejectWrites ==
    [][\A c \in DOMAIN clients :
          ( /\ clients[c].op = "write"
            /\ clients[c].file \in RoFiles
            /\ clients'[c] # clients[c] )
          => /\ reply' = Reply(c, clients[c].file, 0, "permission denied", <<>>)
             /\ clients'[c] = Idle
             /\ UNCHANGED <<jobs, locks, tasks, db>>]_vars

\* C7 witness: permission-denied has just been returned for a write to the
\* log of a started job that has history and a live task.
C7_Witness ==
    /\ reply.c # None /\ reply.op = "log" /\ reply.err = "permission denied"
    /\ \E j \in 1..Len(jobs) :
          /\ jobs[j].state = STARTED /\ jobs[j].pushed >= 1
          /\ \E t \in TasksOf(j) : Alive(t)

\* C8: after N pushes by the tasks of a job, a read of log with no push in
\* progress returns min(N, RingCap) entries.
C8_LogHoldsEveryPush ==
    \A j \in 1..Len(jobs) :
        Quiet(j) => Len(Log(j)) = Min(jobs[j].pushed, RingCap)

\* C9: a read of log returns the entries oldest first, whatever the tasks
\* do while it runs.
C9_LogReadOldestFirst ==
    reply.c # None /\ reply.op = "readlog"
        => \A i \in 1..(Len(reply.content) - 1) :
               reply.content[i].t < reply.content[i + 1].t

\* C10: no job of the registry has a name that is empty or holds a byte
\* outside [A-Za-z0-9_]: a clone write of such a name creates nothing.
C10_InvalidNameRejected ==
    \A j \in 1..Len(jobs) :
        /\ Len(jobs[j].defn.name) > 0
        /\ \A i \in 1..Len(jobs[j].defn.name) : jobs[j].defn.name[i] \in WordChars

\* C11: when no clone write is in progress, replaying the definitions file
\* on a fresh daemon gives the jobs of the registry: as many, with the same
\* name, schedule and command byte for byte, all STOPPED.
C11_ReplayRoundTrip ==
    (\A c \in DOMAIN clients : clients[c].pc = "idle")
        => LET r == Replay(db)
           IN  /\ Len(r) = Len(jobs)
               /\ {r[i].defn : i \in 1..Len(r)} =
                      {jobs[j].defn : j \in 1..Len(jobs)}
               /\ \A i \in 1..Len(r) : r[i].state = STOPPED

\* C12: a read of a job file returns 0 bytes when the offset is at or past
\* the length L of the content; otherwise the count it returns is
\* min(max, L - offset), never more than max, and the bytes returned are the
\* content from the offset on.
C12_ReadReturnsWhatFits ==
    (reply.c # None /\ reply.op = "read")
        => LET cont == Content(reply.job, reply.file)
               L == Len(cont)
           IN  IF reply.offset >= L
               THEN reply.n = 0
               ELSE /\ reply.n = Min(reply.max, L - reply.offset)
                    /\ reply.n <= reply.max
                    /\ reply.content =
                           SubSeq(cont, reply.offset + 1, reply.offset + reply.n)

\* C13: no job ever has two scheduler tasks alive, a task being alive until
\* it has pushed its completion entry and returned.
C13_OneTaskPerJob ==
    \A j \in 1..Len(jobs) :
        Cardinality({t \in TasksOf(j) : Alive(t)}) <= 1

\* C14: once a stop of a started job has returned (the job is STOPPED, its
\* mutex is free and it has been started before), every task of the job has
\* returned and a read of log shows a "completed" entry with no "started"
\* entry after it.
C14_StopReturnedCompleted ==
    \A j \in 1..Len(jobs) :
        (jobs[j].state = STOPPED /\ locks[j] = None /\ TasksOf(j) # {})
            => /\ \A t \in TasksOf(j) : ~Alive(t)
               /\ LET log == Log(j)
                  IN  \E i \in 1..Len(log) :
                          /\ log[i].kind = "completed"
                          /\ \A k \in (i + 1)..Len(log) : log[k].kind # STARTED

\* The logical clock has run out under a task of job j that is about to
\* build an entry: the model follows this push no further.
ClockRanOut(j) ==
    now = MaxClock /\ \E t \in TasksOf(j) : tasks[t].pc = "push"

\* C15: a write of "stop" to ctl that has arrived eventually returns, with
\* the mutex of the job directory released, as far as the clock of the model
\* lets the task of the job run.
C15_StopReturns ==
    \A c \in {"c1"} :
        (IsCtlWrite(c) /\ CtlCommand(clients[c].data) = STOP)
            ~> \/ /\ clients[c].pc = "idle"
                  /\ \A j \in 1..Len(locks) : locks[j] = None
               \/ ClockRanOut(clients[c].job)

\* C15 witness: a stop has just returned from the handoff to a task that had
\* started and run a command to its end, and no mutex is held.
C15_Witness ==
    /\ reply = Reply("c1", "ctl", Len(StopUpper), None, <<>>)
    /\ \A j \in 1..Len(locks) : locks[j] = None
    /\ \E t \in 1..Len(tasks) :
          /\ tasks[t].pc = "push" /\ tasks[t].kind = "completed"
          /\ jobs[tasks[t].job].state = STOPPED
          /\ jobs[tasks[t].job].pushed >= 2

\* C16: a write of "start" admitted when the job is STARTED, and a write of
\* "stop" admitted when it is STOPPED, returns at once with success and the
\* whole payload consumed, whatever the tasks are doing, and changes neither
\* the job (state, history), nor the tasks, nor any mutex, nor the clock.
C16_IdempotentStartStop ==
    [][\A c \in DOMAIN clients :
          LET j == clients[c].job
              data == clients[c].data
          IN  ( /\ IsCtlWrite(c) /\ clients[c].pc = "lock"
                /\ clients'[c] # clients[c]
                /\ \/ EqualFold(data, Bytes(START)) /\ jobs[j].state = STARTED
                   \/ EqualFold(data, Bytes(STOP)) /\ jobs[j].state = STOPPED )
              => /\ reply' = Reply(c, "ctl", Len(data), None, <<>>)
                 /\ clients'[c] = Idle
                 /\ UNCHANGED <<jobs, tasks, locks, now>>]_vars

\* C16 witness: a start has just returned for a started job whose one task
\* is in the middle of a command.
C16_Witness ==
    /\ reply = Reply("c1", "ctl", Len(StartLower), None, <<>>)
    /\ Len(tasks) = 1 /\ tasks[1].pc = "run"
    /\ jobs[tasks[1].job].state = STARTED
    /\ jobs[tasks[1].job].pushed = 1

\* A stop of job j waits in job.done <- true.
StopWaits(j) ==
    \E c \in DOMAIN clients :
        /\ clients[c].pc = "act" /\ clients[c].job = j
        /\ CtlCommand(clients[c].data) = STOP

\* C17: a command that fails adds nothing to the history, leaves the state
\* of the job as it is and the clock unread, and leaves its task alive in the
\* select; a stop that waits for a task whose command failed is acknowledged
\* by that task, as far as the clock of the model lets the task run.
C17_FailedCommandLeavesNoEntry ==
    /\ [][\A t \in 1..Len(tasks) :
             (tasks[t].pc = "run" /\ tasks'[t].pc # "run" /\ tasks'[t].pc # "push")
                 => /\ jobs' = jobs /\ now' = now
                    /\ tasks'[t].pc = "select"]_vars
    /\ \A t \in 1..MaxTasks :
          ( /\ t <= Len(tasks)
            /\ tasks[t].pc = "select" /\ tasks[t].kind = "failed"
            /\ StopWaits(tasks[t].job) )
              ~> /\ t <= Len(tasks)
                 /\ \/ tasks[t].kind = "completed"
                    \/ ClockRanOut(tasks[t].job)

\* C17 witness: the command of a task has failed while a stop of its job
\* waits; the task is back in its select and the history holds "started"
\* alone.
C17_Witness ==
    \E t \in 1..Len(tasks) :
        /\ tasks[t].pc = "select" /\ tasks[t].kind = "failed"
        /\ StopWaits(tasks[t].job)
        /\ jobs[tasks[t].job].pushed = 1
        /\ Len(Log(tasks[t].job)) = 1

\* C18: a write to the ctl file of a job waits for the mutex of that job's
\* directory and for nothing else: it is admitted whenever that mutex is
\* free and then goes on step by step (a start up to the spawn, a stop up to
\* the handoff to the task of its own job), whatever mutex of another job is
\* held and whatever the tasks of another job do.
C18_JobsIndependent ==
    \A d \in DOMAIN clients :
        IsCtlWrite(d) =>
            LET j == clients[d].job
                cmd == CtlCommand(clients[d].data)
            IN  /\ (clients[d].pc = "lock" /\ locks[j] = None)
                       => ENABLED CtlEnter(d)
                /\ clients[d].pc = "set" => ENABLED CtlSet(d)
                /\ (clients[d].pc = "act" /\ cmd = START /\ Len(tasks) < MaxTasks)
                       => ENABLED CtlSpawn(d)
                /\ \A t \in TasksOf(j) :
                       (clients[d].pc = "act" /\ cmd = STOP /\ tasks[t].pc = "select")
                           => ENABLED CtlSend(d, t)

\* C18 witness: a start of job b has just returned with its task spawned
\* while a stop of job a holds the mutex of a and waits for a's task, whose
\* command is still running.
C18_Witness ==
    \E c \in DOMAIN clients, d \in DOMAIN clients :
        /\ c # d
        /\ clients[c].pc = "act" /\ clients[c].job = 1 /\ locks[1] = c
        /\ CtlCommand(clients[c].data) = STOP
        /\ \E t \in TasksOf(1) : tasks[t].pc = "run"
        /\ reply = Reply(d, "ctl", Len(StartLower), None, <<>>)
        /\ jobs[2].state = STARTED
        /\ \E t \in TasksOf(2) : tasks[t].pc = "push" /\ tasks[t].kind = STARTED

\* C19: while a job is STOPPED and no stop of it waits for the handoff (the
\* stop has returned and no later start has taken effect), no task of the job
\* runs its command or waits in the select from which a command starts; so
\* a command that ran when the stop was written was over when it returned.
C19_NoRunAfterStop ==
    \A j \in 1..Len(jobs) :
        (jobs[j].state = STOPPED /\ ~StopWaits(j))
            => \A t \in TasksOf(j) : tasks[t].pc \notin {"select", "run"}

\* C19 witness: a job was started, ran its command once and was stopped; its
\* task has returned and the job is STOPPED with its mutex free.
C19_Witness ==
    \E j \in 1..Len(jobs) :
        /\ jobs[j].state = STOPPED /\ locks[j] = None
        /\ TasksOf(j) # {} /\ \A t \in TasksOf(j) : ~Alive(t)
        /\ [i \in 1..Len(Log(j)) |-> Log(j)[i].kind] =
               <<STARTED, "output", "completed">>

\* The lines of the definitions file, in order.
LineSeq(bytes) ==
    LET parts == Split(bytes, "\n")
    IN  SubSeq(parts, 1, Len(parts) - 1)

\* C20: the definitions file changes only by the append of the payload of a
\* clone write that has registered a job of that definition and that returns
\* success; a clone write that returns an error leaves the file as it was;
\* every line is the definition of a job of the registry and no two lines
\* have the same name.
C20_LogHoldsRegisteredOnly ==
    /\ [][ /\ db' # db =>
                \E c \in DOMAIN clients :
                    /\ clients[c].op = "clone" /\ clients[c].pc = "append"
                    /\ db' = db \o clients[c].data \o <<"\n">>
                    /\ \E j \in 1..Len(jobs) : DefLine(jobs[j].defn) = clients[c].data
                    /\ jobs' = jobs
                    /\ reply' = Reply(c, "clone", Len(clients[c].data), None, <<>>)
           /\ (reply'.c # None /\ reply'.err # None) => db' = db ]_vars
    /\ [](LET lines == LineSeq(db)
          IN  /\ \A i \in 1..Len(lines) :
                    \E j \in 1..Len(jobs) : DefLine(jobs[j].defn) = lines[i]
              /\ \A i, k \in 1..Len(lines) :
                    Split(lines[i], ":")[1] = Split(lines[k], ":")[1] => i = k)

\* C20 witness: with two definitions in the file, a clone write of a name
\* with a blank has just been rejected.
C20_Witness ==
    /\ reply.c # None /\ reply.op = "clone" /\ reply.err = "invalid job name"
    /\ Len(LineSeq(db)) = 2 /\ Len(jobs) = 2

====
